---- MODULE Spec2Model ----
(***************************************************************************)
(* A model of phosphor-uikit.py: the interpretation of a JSON              *)
(* configuration into (icon name, size, style) triples and the two-level   *)
(* reconciliation of an .xcassets catalog against those triples.           *)
(*                                                                         *)
(* Strings are TLA+ strings; TLC evaluates Len, \o, SubSeq, Head and Tail  *)
(* on them, so suffix tests, substring tests and "%s" formatting are       *)
(* computed on the characters, as the script computes them.                *)
(* Icon names are file-name components: they hold no path separator.       *)
(***************************************************************************)
EXTENDS Integers, Sequences, FiniteSets, TLC

VARIABLES
    dryrun,          \* flags["--dry-run"]
    catalog_fpaths,  \* the config file arguments, in argument order
    fileIdx,         \* index in catalog_fpaths of the file being processed
    pc,              \* position of the script
    exitcode,        \* -1 while running, else the exit status
    did_warn,        \* did_warn_bad_phosphor_core_path
    config,          \* process_catalog_fpath: config
    options,         \* process_catalog_fpath: options
    icons_set,       \* process_catalog_fpath: icons_set
    fs,              \* the file system: catalogs, svg cache, other files
    fs0,             \* the file system when the script started
    atFile,          \* fs, fetches and rsvgRuns when the current file was started
    todoDel,         \* rest of sorted(imagesets_to_delete) / sorted(pngs_to_delete)
    todoNew,         \* rest of sorted(imagesets_to_create) / sorted(pngs_to_create)
    todoTriples,     \* rest of sorted(icons_set)
    log,             \* the lines written to stdout and stderr, in order
    lastSvg,         \* the latest call of get_svg_fpath
    lastRsvg,        \* the latest call of rasterize_rsvg
    fetches,         \* number of urlretrieve calls made
    rsvgRuns         \* number of rsvg-convert processes run

vars == <<dryrun, catalog_fpaths, fileIdx, pc, exitcode, did_warn,
          config, options, icons_set, fs, fs0, atFile, todoDel, todoNew,
          todoTriples, log, lastSvg, lastRsvg, fetches, rsvgRuns>>

----------------------------------------------------------------------------
(* Strings *)

\* str.endswith
EndsWith(s, suf) ==
    /\ Len(s) >= Len(suf)
    /\ SubSeq(s, Len(s) - Len(suf) + 1, Len(s)) = suf

\* the "in" operator on two str values
Contains(sub, s) ==
    \E i \in 1..(Len(s) - Len(sub) + 1) : SubSeq(s, i, i + Len(sub) - 1) = sub

Digits == "0123456789"

RECURSIVE NatToStr(_)
NatToStr(n) ==
    IF n < 10 THEN SubSeq(Digits, n + 1, n + 1)
    ELSE NatToStr(n \div 10) \o SubSeq(Digits, (n % 10) + 1, (n % 10) + 1)

\* "%s" % n for an int n
IntToStr(n) == IF n < 0 THEN "-" \o NatToStr(-n) ELSE NatToStr(n)

\* The characters the model uses, in code point order.
CodePoints == "-./0123456789@abcdefghijklmnopqrstuvwxyz"

Ord(c) == CHOOSE i \in 1..Len(CodePoints) : SubSeq(CodePoints, i, i) = c

\* a < b on two str values
RECURSIVE StrLess(_, _)
StrLess(a, b) ==
    IF Len(b) = 0 THEN FALSE
    ELSE IF Len(a) = 0 THEN TRUE
    ELSE IF Head(a) = Head(b) THEN StrLess(Tail(a), Tail(b))
    ELSE Ord(Head(a)) < Ord(Head(b))

\* a < b on two (name, size, style) tuples
TripleLess(a, b) ==
    IF a[1] # b[1] THEN StrLess(a[1], b[1])
    ELSE IF a[2] # b[2] THEN a[2] < b[2]
    ELSE StrLess(a[3], b[3])

\* a sort in descending order
RECURSIVE SortedStrsDescending(_)
SortedStrsDescending(S) ==
    IF S = {} THEN <<>>
    ELSE LET m == CHOOSE x \in S : \A y \in S : ~StrLess(x, y)
         IN  <<m>> \o SortedStrsDescending(S \ {m})

\* sorted() on a set of str
RECURSIVE SortedStrs(_)
SortedStrs(S) ==
    IF S = {} THEN <<>>
    ELSE LET m == CHOOSE x \in S : \A y \in S : ~StrLess(y, x)
         IN  <<m>> \o SortedStrs(S \ {m})

\* sorted() on a set of triples
RECURSIVE SortedTriples(_)
SortedTriples(S) ==
    IF S = {} THEN <<>>
    ELSE LET m == CHOOSE x \in S : \A y \in S : ~TripleLess(y, x)
         IN  <<m>> \o SortedTriples(S \ {m})

\* os.path.join(a, b)
PathJoin(a, b) ==
    IF Len(b) > 0 /\ Head(b) = "/" THEN b
    ELSE IF Len(a) = 0 \/ EndsWith(a, "/") THEN a \o b
    ELSE a \o "/" \o b

Home == "/h"

\* os.path.expanduser
ExpandUser(p) ==
    IF p = "~" THEN Home
    ELSE IF Len(p) >= 2 /\ SubSeq(p, 1, 2) = "~/" THEN Home \o Tail(p)
    ELSE p

----------------------------------------------------------------------------
(* Globals *)

valid_styles == {"bold", "duotone", "fill", "light", "regular", "thin"}
default_styles == {"regular"}
default_sizes == {44}
default_options == [k \in {"renderer"} |-> "rsvg"]
valid_options == {"renderer", "phosphor_core_path"}
valid_renderers == {"rsvg", "inkscape"}

----------------------------------------------------------------------------
(* JSON values.  A token of a group is [t, i, s]: t is the Python type the *)
(* token deserializes to, i its value when t = "int", s when t = "str".    *)
(* An entry of the top-level array is [t, items, kv]: items are the tokens *)
(* of a list, kv the key/value pairs of a dict, in document order.         *)

IntTok(n) == [t |-> "int", i |-> n, s |-> ""]
StrTok(x) == [t |-> "str", i |-> 0, s |-> x]
JunkTok(ty) == [t |-> ty, i |-> 0, s |-> ""]

ListEntry(toks) == [t |-> "list", items |-> toks, kv |-> <<>>]
DictEntry(pairs) == [t |-> "dict", items |-> <<>>, kv |-> pairs]
StrEntry == [t |-> "str", items |-> <<>>, kv |-> <<>>]

----------------------------------------------------------------------------
(* Config Interpreter *)

\* a loop that keeps the value an option already has
RECURSIVE OptionsOfPairsKeepFirst(_, _)
OptionsOfPairsKeepFirst(pairs, acc) ==
    IF pairs = <<>> \/ ~acc.ok THEN acc
    ELSE LET k == Head(pairs)[1]
             v == Head(pairs)[2]
         IN  IF k \notin valid_options
             THEN [ok |-> FALSE, opts |-> acc.opts]
             ELSE OptionsOfPairsKeepFirst(Tail(pairs),
                    [ok |-> TRUE,
                     opts |-> [x \in DOMAIN acc.opts \cup {k} |->
                                 IF x \in DOMAIN acc.opts THEN acc.opts[x] ELSE v]])

\* parse_options: the loop over the items of the dicts (lines 64-71).
\* acc is [ok, opts]; the first unknown key ends the run.
RECURSIVE OptionsOfPairs(_, _)
OptionsOfPairs(pairs, acc) ==
    IF pairs = <<>> \/ ~acc.ok THEN acc
    ELSE LET k == Head(pairs)[1]
             v == Head(pairs)[2]
         IN  IF k \notin valid_options
             THEN [ok |-> FALSE, opts |-> acc.opts]
             ELSE OptionsOfPairs(Tail(pairs),
                    [ok |-> TRUE,
                     opts |-> [x \in DOMAIN acc.opts \cup {k} |->
                                 IF x = k THEN v ELSE acc.opts[x]]])

RECURSIVE OptionsOfEntries(_, _)
OptionsOfEntries(entries, acc) ==
    IF entries = <<>> \/ ~acc.ok THEN acc
    ELSE OptionsOfEntries(Tail(entries),
            IF Head(entries).t = "dict"
            THEN OptionsOfPairs(Head(entries).kv, acc)
            ELSE acc)

\* parse_options: [ok |-> FALSE, ...] stands for sys.exit(1)
parse_options(cfg) ==
    LET r == OptionsOfEntries(cfg, [ok |-> TRUE, opts |-> default_options])
    IN  IF ~r.ok THEN r
        ELSE IF r.opts["renderer"] \notin valid_renderers
             THEN [ok |-> FALSE, opts |-> r.opts]
             ELSE r

\* a loop that skips a word it does not recognize
RECURSIVE CollectWordsLenient(_, _)
CollectWordsLenient(words, acc) ==
    IF words = <<>> THEN acc
    ELSE LET w == Head(words)
         IN  CollectWordsLenient(Tail(words),
               IF w.t = "int"
               THEN [acc EXCEPT !.sizes = @ \cup {w.i}]
               ELSE IF w.t = "str"
                    THEN IF w.s \in valid_styles
                         THEN [acc EXCEPT !.styles = @ \cup {w.s}]
                         ELSE [acc EXCEPT !.names = @ \cup {w.s}]
                    ELSE acc)

\* parse_icon_groups: the loop over the words of one group (lines 94-108).
\* acc is [ok, names, sizes, styles].
RECURSIVE CollectWords(_, _)
CollectWords(words, acc) ==
    IF words = <<>> \/ ~acc.ok THEN acc
    ELSE LET w == Head(words)
         IN  CollectWords(Tail(words),
               IF w.t = "int"
               THEN [acc EXCEPT !.sizes = @ \cup {w.i}]
               ELSE IF w.t = "str"
                    THEN IF w.s \in valid_styles
                         THEN [acc EXCEPT !.styles = @ \cup {w.s}]
                         ELSE [acc EXCEPT !.names = @ \cup {w.s}]
                    ELSE [acc EXCEPT !.ok = FALSE])

\* a default that is added to the sizes found, not put in their place
GroupSizesWithDefault(found) == found \cup default_sizes

\* the default substitution (lines 110-113)
GroupSizes(found) == IF Cardinality(found) = 0 THEN default_sizes ELSE found

GroupStyles(found) == IF Cardinality(found) = 0 THEN default_styles ELSE found

\* an explosion that pairs each size with one style only
GroupTriplesPaired(g) ==
    { <<n, z, CHOOSE y \in GroupStyles(g.styles) : TRUE>> :
        n \in g.names, z \in GroupSizes(g.sizes) }

\* the combinatorial explosion of one group (lines 115-119)
GroupTriples(g) ==
    { <<n, z, y>> : n \in g.names, z \in GroupSizes(g.sizes), y \in GroupStyles(g.styles) }

\* parse_icon_groups: the loop over the entries (lines 86-119).
\* acc is [ok, set].
RECURSIVE IconsOfEntries(_, _)
IconsOfEntries(entries, acc) ==
    IF entries = <<>> \/ ~acc.ok THEN acc
    ELSE LET e == Head(entries)
         IN  IF e.t # "list" THEN IconsOfEntries(Tail(entries), acc)
             ELSE LET g == CollectWords(e.items,
                             [ok |-> TRUE, names |-> {}, sizes |-> {}, styles |-> {}])
                  IN  IF ~g.ok THEN [ok |-> FALSE, set |-> {}]
                      ELSE IconsOfEntries(Tail(entries),
                             [ok |-> TRUE, set |-> acc.set \cup GroupTriples(g)])

\* parse_icon_groups: [ok |-> FALSE, ...] stands for sys.exit(1)
parse_icon_groups(cfg) == IconsOfEntries(cfg, [ok |-> TRUE, set |-> {}])

----------------------------------------------------------------------------
(* The file system.                                                        *)
(* fs.cats  : catalog directory path -> [files, dirs], for the catalog     *)
(*            directories that exist; files maps the name of a plain file  *)
(*            of the directory to its content, dirs maps the name of a     *)
(*            sub-directory to its files (name -> content).                *)
(* fs.cache : directory path under the svg cache -> its files.             *)
(* fs.ext   : the paths of the other files that exist (a phosphor          *)
(*            checkout); the script only reads them.                       *)

Put(f, k, v) == [x \in DOMAIN f \cup {k} |-> IF x = k THEN v ELSE f[x]]
Drop(f, k) == [x \in DOMAIN f \ {k} |-> f[x]]
NoFiles == [x \in {} |-> ""]
NoDirs == [x \in {} |-> NoFiles]

\* os.path.exists(catalog_dpath)
CatExists(F, c) == c \in DOMAIN F.cats

\* os.listdir(catalog_dpath)
ListCat(F, c) == DOMAIN F.cats[c].files \cup DOMAIN F.cats[c].dirs

\* os.path.exists(os.path.join(catalog_dpath, dname))
EntryExists(F, c, d) == CatExists(F, c) /\ d \in ListCat(F, c)

\* a test that never finds the file
FileExistsNever(F, c, d, f) == FALSE

\* os.path.exists on a file of a sub-directory of the catalog
FileExists(F, c, d, f) ==
    /\ CatExists(F, c)
    /\ d \in DOMAIN F.cats[c].dirs
    /\ f \in DOMAIN F.cats[c].dirs[d]

\* os.mkdir(catalog_dpath)
MkCat(F, c) == [F EXCEPT !.cats = Put(@, c, [files |-> NoFiles, dirs |-> NoDirs])]

\* open(catalog_dpath + "/Contents.json", "w+").write(j)
WriteCatFile(F, c, f, j) == [F EXCEPT !.cats[c].files = Put(@, f, j)]

\* a directory creation that creates nothing
MkDirNothing(F, c, d) == F

\* os.mkdir(dpath)
MkDir(F, c, d) == [F EXCEPT !.cats[c].dirs = Put(@, d, NoFiles)]

\* a removal that gives up on a directory that is not empty
RmTreeOnlyEmpty(F, c, d) ==
    IF F.cats[c].dirs[d] = NoFiles THEN [F EXCEPT !.cats[c].dirs = Drop(@, d)] ELSE F

\* shutil.rmtree(dpath)
RmTree(F, c, d) == [F EXCEPT !.cats[c].dirs = Drop(@, d)]

\* a removal that leaves the file where it is
RmFileKept(F, c, d, f) == F

\* os.remove(fpath)
RmFile(F, c, d, f) == [F EXCEPT !.cats[c].dirs[d] = Drop(@, f)]

\* a write to fpath: by open(..., "w+") or by the shell's redirection
WriteFile(F, c, d, f, j) == [F EXCEPT !.cats[c].dirs[d] = Put(@, f, j)]

----------------------------------------------------------------------------
(* Manifests *)

InfoJson == "info:{author:xcode,version:1}"

\* json.dumps of the .xcassets Contents.json (lines 135-136)
XcassetJson == "{" \o InfoJson \o "}"

\* the scale tag of a png file name (lines 171-176)
Scale(png_fname) ==
    IF Contains("@3x", png_fname) THEN "3x"
    ELSE IF Contains("@2x", png_fname) THEN "2x"
    ELSE "1x"

ImageJson(png_fname) ==
    "{filename:" \o png_fname \o ",idiom:universal,scale:" \o Scale(png_fname) \o "}"

RECURSIVE ImagesJson(_)
ImagesJson(png_fnames) ==
    IF png_fnames = <<>> THEN ""
    ELSE ImageJson(Head(png_fnames))
         \o (IF Len(png_fnames) > 1 THEN "," ELSE "")
         \o ImagesJson(Tail(png_fnames))

\* json.dumps of an .imageset Contents.json (lines 169-185)
ImagesetJson(png_fnames) == "{images:[" \o ImagesJson(png_fnames) \o "]," \o InfoJson \o "}"

----------------------------------------------------------------------------
(* Source images *)

\* svg_fname
svg_fname(name, style) ==
    IF style = "regular" THEN name \o ".svg"
    ELSE name \o "-" \o style \o ".svg"

CachePath == ExpandUser("~/.phosphor-uikit/svg-cache")

RemoteUrl(style, fname) ==
    "https://raw.githubusercontent.com/phosphor-icons/core/refs/heads/main/assets/"
        \o style \o "/" \o fname

\* os.makedirs(dpath, exist_ok=True), behind the dry-run flag (lines 227-228)
CacheMakedirs(F, dpath, dry) ==
    IF ~dry /\ dpath \notin DOMAIN F.cache
    THEN [F EXCEPT !.cache = Put(@, dpath, NoFiles)]
    ELSE F

\* a fetch that the dry-run flag does not hold back
UrlRetrieveAlways(F, dpath, fname, url, dry) ==
    [F EXCEPT !.cache = Put(@, dpath,
        Put(IF dpath \in DOMAIN F.cache THEN F.cache[dpath] ELSE NoFiles,
            fname, "svg:" \o url))]

\* urllib.request.urlretrieve(url, fpath), behind the dry-run flag (lines 231-232)
UrlRetrieve(F, dpath, fname, url, dry) ==
    IF ~dry THEN [F EXCEPT !.cache[dpath] = Put(@, fname, "svg:" \o url)] ELSE F

\* the guard of the checkout lookup (line 208)
UseCheckout(opts, warned) == "phosphor_core_path" \in DOMAIN opts /\ ~warned

\* get_svg_fpath(name, style, options), called in file system F with
\* did_warn_bad_phosphor_core_path = warned and flags["--dry-run"] = dry.
\* src tells where the path returned points: "checkout", "cache", or
\* "fetch" (the cache, after the fetch); fetch tells that urlretrieve is called.
get_svg_fpath(name, style, opts, F, warned, dry) ==
    LET fname == svg_fname(name, style)
        look == UseCheckout(opts, warned)
        coPath == ExpandUser(opts["phosphor_core_path"]) \o "/assets/" \o style
                     \o "/" \o fname
        inCheckout == look /\ coPath \in F.ext
        warned2 == IF look /\ ~inCheckout THEN TRUE ELSE warned
        warnLine == IF look /\ ~inCheckout
                    THEN <<[op |-> "warn", path |-> "phosphor_core_path"]>> ELSE <<>>
        dpath == CachePath \o "/assets/" \o style
        fpath == dpath \o "/" \o fname
        inCache == dpath \in DOMAIN F.cache /\ fname \in DOMAIN F.cache[dpath]
        needDir == dpath \notin DOMAIN F.cache
        url == RemoteUrl(style, fname)
        F1 == IF needDir THEN CacheMakedirs(F, dpath, dry) ELSE F
        F2 == UrlRetrieve(F1, dpath, fname, url, dry)
    IN  IF inCheckout
        THEN [ret |-> coPath, src |-> "checkout", fs |-> F, fsNoFetch |-> F,
              warned |-> warned, lines |-> <<>>, fetch |-> FALSE]
        ELSE IF inCache
        THEN [ret |-> fpath, src |-> "cache", fs |-> F, fsNoFetch |-> F,
              warned |-> warned2, lines |-> warnLine, fetch |-> FALSE]
        ELSE [ret |-> fpath, src |-> "fetch", fs |-> F2, fsNoFetch |-> F1,
              warned |-> warned2,
              lines |-> warnLine
                        \o (IF needDir THEN <<[op |-> "mkdir", path |-> dpath]>> ELSE <<>>)
                        \o <<[op |-> "fetch", path |-> url]>>,
              fetch |-> ~dry]

\* the target resolution (lines 238-242)
Resolution(size, png_fpath) ==
    IF Contains("@2x", png_fpath) THEN size * 2
    ELSE IF Contains("@3x", png_fpath) THEN size * 3
    ELSE size

----------------------------------------------------------------------------
(* Names *)

\* catalog_fpath[:-(len(".json"))] + ".xcassets" (line 333)
catalog_dpath(catalog_fpath) ==
    SubSeq(catalog_fpath, 1, Len(catalog_fpath) - Len(".json")) \o ".xcassets"

\* a name that leaves the size out
TripleBaseNoSize(t) == t[1] \o "." \o t[3]

\* "%s.%s.%s" % (name, size, style)
TripleBase(t) == t[1] \o "." \o IntToStr(t[2]) \o "." \o t[3]

\* "%s.%s.%s.imageset" % (name, size, style) (lines 283, 302)
imageset_dname(t) == TripleBase(t) \o ".imageset"

\* [fname1x, fname2x, fname3x] (lines 309-311)
PngNames(t) ==
    <<TripleBase(t) \o ".png", TripleBase(t) \o "@2x.png", TripleBase(t) \o "@3x.png">>

\* a listing that takes every sub-directory, whatever its suffix
ExistingImagesetsAll(F, c) == IF CatExists(F, c) THEN DOMAIN F.cats[c].dirs ELSE {}

\* existing_imageset_dnames (lines 275-280)
ExistingImagesets(F, c) ==
    IF CatExists(F, c) THEN {d \in ListCat(F, c) : EndsWith(d, ".imageset")} ELSE {}

\* expected_imageset_dnames (lines 281-284)
ExpectedImagesets(icons) == {imageset_dname(t) : t \in icons}

\* a listing that matches the suffix in the wrong case
ExistingPngsUpper(F, c, d) ==
    IF EntryExists(F, c, d)
    THEN {f \in DOMAIN F.cats[c].dirs[d] : EndsWith(f, ".PNG")}
    ELSE {}

\* existing_png_fnames (lines 301-307)
ExistingPngs(F, c, d) ==
    IF EntryExists(F, c, d)
    THEN {f \in DOMAIN F.cats[c].dirs[d] : EndsWith(f, ".png")}
    ELSE {}

\* an expectation of the base file alone
ExpectedPngsBaseOnly(t) == {PngNames(t)[1]}

\* expected_png_fnames (lines 308-312)
ExpectedPngs(t) == {PngNames(t)[i] : i \in 1..3}

----------------------------------------------------------------------------
(* Inputs: the command line, the config files and the file system the      *)
(* script is started in.                                                   *)

MaxArgs == 2        \* config file arguments on the command line
MaxTemplates == 2   \* kinds of content an .imageset directory starts with

GoodFile(entries) ==
    [readable |-> TRUE, wellformed |-> TRUE, toplist |-> TRUE, entries |-> entries]

\* [{"phosphor_core_path": "/k"}, ["u", "p", "bold"]]
ConfigA ==
    <<DictEntry(<<<<"phosphor_core_path", "/k">>>>),
      ListEntry(<<StrTok("u"), StrTok("p"), StrTok("bold")>>)>>

\* ["a comment", ["u"], {"renderer": "inkscape", "phosphor_core_path": "/k"}]
ConfigB ==
    <<StrEntry, ListEntry(<<StrTok("u")>>),
      DictEntry(<<<<"renderer", "inkscape">>, <<"phosphor_core_path", "/k">>>>)>>

\* the config files that end a run: unreadable, not JSON, not an array,
\* an unknown option, an unknown renderer, a float token, a null token
BadFiles ==
    { [readable |-> FALSE, wellformed |-> TRUE, toplist |-> TRUE, entries |-> <<>>],
      [readable |-> TRUE, wellformed |-> FALSE, toplist |-> TRUE, entries |-> <<>>],
      [readable |-> TRUE, wellformed |-> TRUE, toplist |-> FALSE, entries |-> <<>>],
      GoodFile(<<ListEntry(<<StrTok("u")>>), DictEntry(<<<<"colour", "red">>>>)>>),
      GoodFile(<<DictEntry(<<<<"renderer", "cairo">>>>), ListEntry(<<StrTok("u")>>)>>),
      GoodFile(<<ListEntry(<<StrTok("u"), JunkTok("float")>>)>>),
      GoodFile(<<ListEntry(<<StrTok("p")>>), ListEntry(<<JunkTok("NoneType"), IntTok(20)>>)>>) }

GoodPaths == {"a.json", "b@2x.json"}
Paths == GoodPaths \cup {"e.json"}

GoodContent(path) == IF path = "a.json" THEN GoodFile(ConfigA) ELSE GoodFile(ConfigB)

\* what open() and json.load() give for a config file path
FileContents(path) == IF path \in GoodPaths THEN {GoodContent(path)} ELSE BadFiles

SeqsUpTo(S, n) == UNION {[1..k -> S] : k \in 1..n}

Range(q) == {q[i] : i \in DOMAIN q}

\* the triples of the good config files, and the directories they name
KnownTriples == UNION {parse_icon_groups(GoodContent(p).entries).set : p \in GoodPaths}
KnownDirs == {imageset_dname(t) : t \in KnownTriples}

\* what an .imageset directory d holds when the script starts:
\* 1: the three expected files and their manifest, 2: one expected file, two
\* stale pngs, a file that is no png and a manifest with other content,
\* 3 and above: nothing (k - 3 extra stale pngs)
RECURSIVE StalePngs(_)
StalePngs(k) ==
    IF k <= 0 THEN NoFiles ELSE Put(StalePngs(k - 1), "stale" \o IntToStr(k) \o ".png", "png:old")

DirTemplate(k, d) ==
    LET base == SubSeq(d, 1, Len(d) - Len(".imageset"))
        one == base \o ".png"
        two == base \o "@2x.png"
        three == base \o "@3x.png"
    IN  IF k = 1
        THEN Put(Put(Put(Put(NoFiles, one, "png:old"), two, "png:old"), three, "png:old"),
                 "Contents.json", ImagesetJson(<<one, two, three>>))
        ELSE IF k = 2
        THEN Put(Put(Put(Put(Put(NoFiles, three, "png:old"), "old.png", "png:old"),
                 "old2.png", "png:old"), "notes.txt", "notes"), "Contents.json", "{custom}")
        ELSE StalePngs(k - 3)

\* a catalog directory: bare (no manifest), or with a manifest of its own
\* content, a file that is no .imageset and a directory that is none
CatTemplate(kept, E, k) ==
    [files |-> IF kept THEN Put(Put(NoFiles, "Contents.json", "{custom}"), "README", "readme")
               ELSE NoFiles,
     dirs |-> [d \in E \cup (IF kept THEN {"docs"} ELSE {}) |->
                 IF d = "docs" THEN Put(NoFiles, "x.png", "png:old") ELSE DirTemplate(k, d)]]

CatalogStates ==
    {[kept |-> kept, E |-> E, k |-> k] :
        kept \in BOOLEAN, E \in SUBSET KnownDirs, k \in 1..MaxTemplates}

\* the svg cache and the phosphor checkout: a cache that holds one of the
\* bold icons beside a checkout that holds the other and the regular one, or
\* no cache beside a checkout that holds the two bold ones
SourceMenu ==
    { [cache |-> Put(NoDirs, CachePath \o "/assets/bold",
                     Put(NoFiles, "p-bold.svg", "svg:old")),
       ext |-> {"/k/assets/bold/u-bold.svg", "/k/assets/regular/u.svg"}],
      [cache |-> NoDirs,
       ext |-> {"/k/assets/bold/u-bold.svg", "/k/assets/bold/p-bold.svg"}] }

NoSvg ==
    [valid |-> FALSE, name |-> "", style |-> "", ret |-> "", src |-> "",
     cached |-> FALSE, fetch |-> FALSE, file |-> 0, lines |-> <<>>,
     fresh |-> [ret |-> "", lines |-> <<>>, warned |-> FALSE]]

NoRsvg ==
    [valid |-> FALSE, size |-> 0, resolution |-> 0, fname |-> "", png_fpath |-> "",
     svg_fpath |-> "", ran |-> FALSE]

InitFs ==
    { [cats |-> cats, cache |-> src.cache, ext |-> src.ext] :
        cats \in {NoDirs} \cup
                 { [c \in {catalog_dpath(p) : p \in GoodPaths} |->
                       CatTemplate(w.kept, w.E, w.k)] : w \in CatalogStates },
        src \in SourceMenu }

\* The state at line 365: the flags and the config file arguments are parsed.
Init ==
    /\ dryrun \in BOOLEAN
    /\ catalog_fpaths \in SeqsUpTo(Paths, MaxArgs)
    /\ fs \in InitFs
    /\ fs0 = fs
    /\ atFile = [fs |-> fs, fetches |-> 0, rsvgRuns |-> 0]
    /\ fileIdx = 1
    /\ pc = "load"
    /\ exitcode = -1
    /\ did_warn = FALSE
    /\ config = <<>>
    /\ options = default_options
    /\ icons_set = {}
    /\ todoDel = <<>>
    /\ todoNew = <<>>
    /\ todoTriples = <<>>
    /\ log = <<>>
    /\ lastSvg = NoSvg
    /\ lastRsvg = NoRsvg
    /\ fetches = 0
    /\ rsvgRuns = 0

----------------------------------------------------------------------------
(* The script *)

inputs == <<dryrun, catalog_fpaths, fs0>>
locals == <<config, options, icons_set>>
plan == <<todoDel, todoNew, todoTriples>>
calls == <<lastSvg, lastRsvg, fetches, rsvgRuns>>

\* the catalog directory of the file being processed
Cat == catalog_dpath(catalog_fpaths[fileIdx])

\* lines written while the current file is processed
Lines(ls) == [i \in 1..Len(ls) |-> [file |-> fileIdx, op |-> ls[i].op, path |-> ls[i].path]]

Line(op, path) == <<[file |-> fileIdx, op |-> op, path |-> path]>>

\* an error message that no exit follows
DieNoExit(what) ==
    /\ log' = log \o Line("error", what)
    /\ pc' = "catalog"
    /\ exitcode' = exitcode

\* sys.exit(1), and an exception nobody catches: the interpreter exits with 1
Die(what) ==
    /\ log' = log \o Line("error", what)
    /\ pc' = "exit"
    /\ exitcode' = 1

\* load_catalog_fpath (lines 36-57)
LoadCatalog ==
    /\ pc = "load"
    /\ LET path == catalog_fpaths[fileIdx]
       IN  \E f \in FileContents(path) :
           IF ~EndsWith(path, ".json") \/ ~f.readable \/ ~f.wellformed \/ ~f.toplist
           THEN Die(path) /\ UNCHANGED config
           ELSE /\ config' = f.entries
                /\ pc' = "options"
                /\ UNCHANGED <<log, exitcode>>
    /\ UNCHANGED <<inputs, fileIdx, did_warn, options, icons_set, fs, atFile, plan, calls>>

\* options = parse_options(config, catalog_fpath) (line 331)
ParseOptions ==
    /\ pc = "options"
    /\ LET r == parse_options(config)
       IN  IF ~r.ok
           THEN Die("option") /\ UNCHANGED options
           ELSE /\ options' = r.opts
                /\ pc' = "groups"
                /\ UNCHANGED <<log, exitcode>>
    /\ UNCHANGED <<inputs, fileIdx, did_warn, config, icons_set, fs, atFile, plan, calls>>

\* icons_set = parse_icon_groups(config, catalog_fpath) (line 332)
ParseIconGroups ==
    /\ pc = "groups"
    /\ LET r == parse_icon_groups(config)
       IN  IF ~r.ok
           THEN Die("unexpected value") /\ UNCHANGED icons_set
           ELSE /\ icons_set' = r.set
                /\ pc' = "catalog"
                /\ UNCHANGED <<log, exitcode>>
    /\ UNCHANGED <<inputs, fileIdx, did_warn, config, options, fs, atFile, plan, calls>>

\* update_asset_catalog: ensure the .xcassets directory exists (lines 268-271)
EnsureCatalog ==
    /\ pc = "catalog"
    /\ IF ~CatExists(fs, Cat)
       THEN /\ log' = log \o Line("mkdir", Cat)
            /\ fs' = IF ~dryrun THEN MkCat(fs, Cat) ELSE fs
       ELSE UNCHANGED <<log, fs>>
    /\ pc' = "xcasset_json"
    /\ UNCHANGED <<inputs, fileIdx, exitcode, did_warn, locals, atFile, plan, calls>>

\* make_xcasset_contents_json (lines 131-140)
make_xcasset_contents_json ==
    /\ pc = "xcasset_json"
    /\ IF ~EntryExists(fs, Cat, "Contents.json")
       THEN /\ log' = log \o Line("write", PathJoin(Cat, "Contents.json"))
            /\ fs' = IF ~dryrun THEN WriteCatFile(fs, Cat, "Contents.json", XcassetJson)
                     ELSE fs
       ELSE UNCHANGED <<log, fs>>
    /\ pc' = "plan"
    /\ UNCHANGED <<inputs, fileIdx, exitcode, did_warn, locals, atFile, plan, calls>>

\* where the script goes when both loops over a plan are finished
AfterImagesets(del, new) == IF del = <<>> /\ new = <<>> THEN "triples" ELSE "imagesets"

\* update_asset_catalog: the plan for the .imageset directories (lines 275-287);
\* sorted(icons_set) is the sequence line 300 iterates over
PlanImagesets ==
    /\ pc = "plan"
    /\ LET existing == ExistingImagesets(fs, Cat)
           expected == ExpectedImagesets(icons_set)
           new == SortedStrs(expected \ existing)
           del == SortedStrs(existing \ expected)
       IN  /\ todoNew' = new
           /\ todoDel' = del
           /\ pc' = AfterImagesets(del, new)
    /\ todoTriples' = SortedTriples(icons_set)
    /\ UNCHANGED <<inputs, fileIdx, exitcode, did_warn, locals, fs, atFile, log, calls>>

\* one iteration of the loop at lines 289-293
DeleteImageset ==
    /\ pc = "imagesets"
    /\ todoDel # <<>>
    /\ LET dname == Head(todoDel)
       IN  /\ log' = log \o Line("rmtree", PathJoin(Cat, dname))
           /\ fs' = IF ~dryrun THEN RmTree(fs, Cat, dname) ELSE fs
    /\ todoDel' = Tail(todoDel)
    /\ pc' = AfterImagesets(Tail(todoDel), todoNew)
    /\ UNCHANGED <<inputs, fileIdx, exitcode, did_warn, locals, atFile, todoNew,
                   todoTriples, calls>>

\* one iteration of the loop at lines 294-298
CreateImageset ==
    /\ pc = "imagesets"
    /\ todoDel = <<>>
    /\ todoNew # <<>>
    /\ LET dname == Head(todoNew)
       IN  /\ log' = log \o Line("mkdir", PathJoin(Cat, dname))
           /\ fs' = IF ~dryrun THEN MkDir(fs, Cat, dname) ELSE fs
    /\ todoNew' = Tail(todoNew)
    /\ pc' = AfterImagesets(todoDel, Tail(todoNew))
    /\ UNCHANGED <<inputs, fileIdx, exitcode, did_warn, locals, atFile, todoDel,
                   todoTriples, calls>>

\* the plan for the pngs of the next triple (lines 300-315)
PlanPngs ==
    /\ pc = "triples"
    /\ todoTriples # <<>>
    /\ LET t == Head(todoTriples)
           existing == ExistingPngs(fs, Cat, imageset_dname(t))
           expected == ExpectedPngs(t)
       IN  /\ todoNew' = SortedStrs(expected \ existing)
           /\ todoDel' = SortedStrs(existing \ expected)
    /\ pc' = "pngs"
    /\ UNCHANGED <<inputs, fileIdx, exitcode, did_warn, locals, fs, atFile, todoTriples,
                   log, calls>>

\* one iteration of the loop at lines 317-321
DeletePng ==
    /\ pc = "pngs"
    /\ todoDel # <<>>
    /\ LET dname == imageset_dname(Head(todoTriples))
           fname == Head(todoDel)
       IN  /\ log' = log \o Line("remove", PathJoin(PathJoin(Cat, dname), fname))
           /\ fs' = IF ~dryrun THEN RmFile(fs, Cat, dname, fname) ELSE fs
    /\ todoDel' = Tail(todoDel)
    /\ UNCHANGED <<inputs, fileIdx, pc, exitcode, did_warn, locals, atFile, todoNew,
                   todoTriples, calls>>

\* one iteration of the loop at lines 322-324: rasterize, with get_svg_fpath
\* and rasterize_rsvg.  The fetch and the rsvg-convert process succeed or
\* fail; a failing rsvg-convert leaves the file its redirection opened.
Rasterize ==
    /\ pc = "pngs"
    /\ todoDel = <<>>
    /\ todoNew # <<>>
    /\ LET t == Head(todoTriples)
           dname == imageset_dname(t)
           fname == Head(todoNew)
           png_fpath == PathJoin(PathJoin(Cat, dname), fname)
           resolution == Resolution(t[2], png_fpath)
           g == get_svg_fpath(t[1], t[3], options, fs, did_warn, dryrun)
           \* the same call in a process that was started for this file
           freshWarned == IF lastSvg.valid /\ lastSvg.file = fileIdx
                          THEN lastSvg.fresh.warned ELSE FALSE
           h == get_svg_fpath(t[1], t[3], options, fs, freshWarned, dryrun)
           cdir == CachePath \o "/assets/" \o t[3]
           svgCall == [valid |-> TRUE, name |-> t[1], style |-> t[3], ret |-> g.ret,
                       src |-> g.src,
                       cached |-> /\ cdir \in DOMAIN fs.cache
                                  /\ svg_fname(t[1], t[3]) \in DOMAIN fs.cache[cdir],
                       fetch |-> g.fetch, file |-> fileIdx, lines |-> g.lines,
                       fresh |-> [ret |-> h.ret, lines |-> h.lines, warned |-> h.warned]]
           rsvgCall == [valid |-> TRUE, size |-> t[2], resolution |-> resolution,
                        fname |-> fname, png_fpath |-> png_fpath, svg_fpath |-> g.ret,
                        ran |-> ~dryrun]
       IN  /\ did_warn' = g.warned
           /\ lastSvg' = svgCall
           /\ fetches' = IF g.fetch THEN fetches + 1 ELSE fetches
           /\ \E fetched \in BOOLEAN, converted \in BOOLEAN :
                 IF g.fetch /\ ~fetched
                 THEN \* urlretrieve raises
                      /\ fs' = g.fsNoFetch
                      /\ Die(g.ret)
                      /\ log' = log \o Lines(g.lines) \o Line("error", g.ret)
                      /\ UNCHANGED <<todoNew, lastRsvg, rsvgRuns>>
                 ELSE /\ lastRsvg' = rsvgCall
                      /\ rsvgRuns' = IF ~dryrun THEN rsvgRuns + 1 ELSE rsvgRuns
                      /\ IF ~dryrun /\ ~converted
                         THEN \* rsvg-convert fails (lines 259-262)
                              /\ fs' = WriteFile(g.fs, Cat, dname, fname, "")
                              /\ log' = log \o Lines(g.lines) \o Line("raster", png_fpath)
                                            \o Line("error", "rsvg-convert")
                              /\ pc' = "exit"
                              /\ exitcode' = 1
                              /\ UNCHANGED todoNew
                         ELSE /\ fs' = IF ~dryrun
                                       THEN WriteFile(g.fs, Cat, dname, fname,
                                              "png:" \o IntToStr(resolution) \o ":" \o g.ret)
                                       ELSE g.fs
                              /\ log' = log \o Lines(g.lines) \o Line("raster", png_fpath)
                              /\ todoNew' = Tail(todoNew)
                              /\ UNCHANGED <<pc, exitcode>>
    /\ UNCHANGED <<inputs, fileIdx, locals, atFile, todoDel, todoTriples>>

\* make_imageset_contents_json (lines 168-189), called at line 325, and the
\* end of the iteration of the loop at line 300
make_imageset_contents_json ==
    /\ pc = "pngs"
    /\ todoDel = <<>>
    /\ todoNew = <<>>
    /\ LET t == Head(todoTriples)
           dname == imageset_dname(t)
           dpath == PathJoin(Cat, dname)
       IN  IF ~FileExists(fs, Cat, dname, "Contents.json")
           THEN /\ log' = log \o Line("write", PathJoin(dpath, "Contents.json"))
                /\ fs' = IF ~dryrun
                         THEN WriteFile(fs, Cat, dname, "Contents.json",
                                        ImagesetJson(PngNames(t)))
                         ELSE fs
           ELSE UNCHANGED <<log, fs>>
    /\ todoTriples' = Tail(todoTriples)
    /\ pc' = "triples"
    /\ UNCHANGED <<inputs, fileIdx, exitcode, did_warn, locals, atFile, todoDel, todoNew,
                   calls>>

\* the end of process_catalog_fpath and the loop at lines 365-366
NextFile ==
    /\ pc = "triples"
    /\ todoTriples = <<>>
    /\ IF fileIdx < Len(catalog_fpaths)
       THEN /\ fileIdx' = fileIdx + 1
            /\ pc' = "load"
            /\ atFile' = [fs |-> fs, fetches |-> fetches, rsvgRuns |-> rsvgRuns]
            /\ UNCHANGED exitcode
       ELSE /\ pc' = "exit"
            /\ exitcode' = 0
            /\ UNCHANGED <<fileIdx, atFile>>
    /\ UNCHANGED <<inputs, did_warn, locals, fs, plan, log, calls>>

Next ==
    \/ LoadCatalog
    \/ ParseOptions
    \/ ParseIconGroups
    \/ EnsureCatalog
    \/ make_xcasset_contents_json
    \/ PlanImagesets
    \/ DeleteImageset
    \/ CreateImageset
    \/ PlanPngs
    \/ DeletePng
    \/ Rasterize
    \/ make_imageset_contents_json
    \/ NextFile

Spec == Init /\ [][Next]_vars

----------------------------------------------------------------------------
(* The Config Interpreter alone: parse_options and parse_icon_groups       *)
(* applied to every configuration of a bounded set.                        *)

MaxWords == 3    \* tokens of the group that is drawn freely
MaxExtra == 1    \* entries of the configuration before and after that group

\* the tokens a group is drawn from: icon names, a size, a style, the
\* default style given explicitly, and a float
Words ==
    { StrTok("u"), StrTok("p"), IntTok(20), StrTok("bold"), StrTok("regular"),
      JunkTok("float") }

\* the entries that stand before and after it
ExtraEntries ==
    { ListEntry(<<StrTok("p"), StrTok("bold")>>),
      ListEntry(<<StrTok("u"), StrTok("p"), IntTok(44)>>),
      ListEntry(<<StrTok("u"), IntTok(0), IntTok(-1)>>),
      DictEntry(<<<<"renderer", "inkscape">>>>),
      StrEntry }

\* a group of at most MaxWords tokens
ParseGroups == {<<>>} \cup SeqsUpTo(Words, MaxWords)

\* the at most MaxExtra other entries, in order
ParseExtras == {<<>>} \cup SeqsUpTo(ExtraEntries, MaxExtra)

ParseInit ==
    /\ \E g \in ParseGroups, x \in ParseExtras :
          \E k \in 0..Len(x) :
             config = SubSeq(x, 1, k) \o <<ListEntry(g)>> \o SubSeq(x, k + 1, Len(x))
    /\ pc = "options"
    /\ dryrun = FALSE
    /\ catalog_fpaths = <<"a.json">>
    /\ fs = [cats |-> NoDirs, cache |-> NoDirs, ext |-> {}]
    /\ fs0 = fs
    /\ atFile = [fs |-> fs, fetches |-> 0, rsvgRuns |-> 0]
    /\ fileIdx = 1
    /\ exitcode = -1
    /\ did_warn = FALSE
    /\ options = default_options
    /\ icons_set = {}
    /\ todoDel = <<>>
    /\ todoNew = <<>>
    /\ todoTriples = <<>>
    /\ log = <<>>
    /\ lastSvg = NoSvg
    /\ lastRsvg = NoRsvg
    /\ fetches = 0
    /\ rsvgRuns = 0

ParseNext == ParseOptions \/ ParseIconGroups

SpecParse == ParseInit /\ [][ParseNext]_vars

----------------------------------------------------------------------------
(* process_catalog_fpath for one config file, from the configuration loaded *)
(* to the end of update_asset_catalog, over every configuration of a       *)
(* bounded set of options records around one group; the catalog directory  *)
(* and the svg cache are absent when it starts.                            *)

MaxRecords == 3   \* entries of the configuration

\* the entries: options records that set one option or two, to a valid value
\* or not, an options record with a key that is no option, and a group
OptionEntries ==
    { DictEntry(<<<<"renderer", "inkscape">>>>),
      DictEntry(<<<<"renderer", "rsvg">>>>),
      DictEntry(<<<<"renderer", "cairo">>>>),
      DictEntry(<<<<"phosphor_core_path", "/k">>>>),
      DictEntry(<<<<"phosphor_core_path", "~/k">>, <<"renderer", "inkscape">>>>),
      DictEntry(<<<<"colour", "red">>>>),
      ListEntry(<<StrTok("u")>>) }

OptionsInit ==
    /\ config \in {<<>>} \cup SeqsUpTo(OptionEntries, MaxRecords)
    /\ dryrun \in BOOLEAN
    /\ pc = "options"
    /\ catalog_fpaths = <<"a.json">>
    /\ fs = [cats |-> NoDirs, cache |-> NoDirs, ext |-> {}]
    /\ fs0 = fs
    /\ atFile = [fs |-> fs, fetches |-> 0, rsvgRuns |-> 0]
    /\ fileIdx = 1
    /\ exitcode = -1
    /\ did_warn = FALSE
    /\ options = default_options
    /\ icons_set = {}
    /\ todoDel = <<>>
    /\ todoNew = <<>>
    /\ todoTriples = <<>>
    /\ log = <<>>
    /\ lastSvg = NoSvg
    /\ lastRsvg = NoRsvg
    /\ fetches = 0
    /\ rsvgRuns = 0

\* lines 331-334; nothing is there to delete in a catalog that starts absent
OptionsNext ==
    \/ ParseOptions
    \/ ParseIconGroups
    \/ EnsureCatalog
    \/ make_xcasset_contents_json
    \/ PlanImagesets
    \/ CreateImageset
    \/ PlanPngs
    \/ Rasterize
    \/ make_imageset_contents_json

SpecOptions == OptionsInit /\ [][OptionsNext]_vars

----------------------------------------------------------------------------
(* A dry run of process_catalog_fpath for one config file of one group,    *)
(* whose icon names hold dots and digits, on a catalog directory that is   *)
(* absent or empty.                                                        *)

MaxNameWords == 3   \* tokens of the group

\* icon names with dots and digits, sizes that are parts of those names, and
\* a style
NameWords ==
    { StrTok("u"), StrTok("u.2"), StrTok("2"), StrTok("u.2.bold"), IntTok(2), StrTok("bold") }

NamesInit ==
    /\ \E g \in SeqsUpTo(NameWords, MaxNameWords) : config = <<ListEntry(g)>>
    /\ \E cats \in {NoDirs, Put(NoDirs, "a.xcassets", [files |-> NoFiles, dirs |-> NoDirs])} :
          fs = [cats |-> cats, cache |-> NoDirs, ext |-> {}]
    /\ dryrun = TRUE
    /\ pc = "options"
    /\ catalog_fpaths = <<"a.json">>
    /\ fs0 = fs
    /\ atFile = [fs |-> fs, fetches |-> 0, rsvgRuns |-> 0]
    /\ fileIdx = 1
    /\ exitcode = -1
    /\ did_warn = FALSE
    /\ options = default_options
    /\ icons_set = {}
    /\ todoDel = <<>>
    /\ todoNew = <<>>
    /\ todoTriples = <<>>
    /\ log = <<>>
    /\ lastSvg = NoSvg
    /\ lastRsvg = NoRsvg
    /\ fetches = 0
    /\ rsvgRuns = 0

SpecNames == NamesInit /\ [][OptionsNext]_vars

----------------------------------------------------------------------------
(* Properties *)

\* update_asset_catalog has returned for the current file
UpdateDone == pc = "triples" /\ todoTriples = <<>>

\* the lines logged while file i was processed
LinesOf(i) == {k \in DOMAIN log : log[k].file = i}

\* C1: after update_asset_catalog has completed in a run that is not a dry
\* run, the '.imageset' entries of the catalog directory are exactly the
\* names '<name>.<size>.<style>.imageset' of the desired triples, whatever
\* '.imageset' entries the directory held before.
C1_SetDifference ==
    (UpdateDone /\ ~dryrun) =>
        /\ CatExists(fs, Cat)
        /\ {d \in ListCat(fs, Cat) : EndsWith(d, ".imageset")}
             = {t[1] \o "." \o IntToStr(t[2]) \o "." \o t[3] \o ".imageset" : t \in icons_set}

\* C1: a run that deleted a stale directory, created a missing one and kept one
C1_Witness ==
    /\ UpdateDone /\ ~dryrun
    /\ \E k \in LinesOf(fileIdx) : log[k].op = "rmtree"
    /\ \E k \in LinesOf(fileIdx) : log[k].op = "mkdir" /\ EndsWith(log[k].path, ".imageset")
    /\ ExistingImagesets(atFile.fs, Cat) \cap ExpectedImagesets(icons_set) # {}

\* C2: when a config file was processed without error in a run that is not a
\* dry run and is processed again right after, the second processing logs
\* nothing, leaves the file system as it is, fetches nothing and runs no
\* rasterizer.
C2_Idempotence ==
    (/\ ~dryrun
     /\ fileIdx > 1
     /\ catalog_fpaths[fileIdx] = catalog_fpaths[fileIdx - 1]) =>
        /\ LinesOf(fileIdx) = {}
        /\ fs = atFile.fs
        /\ fetches = atFile.fetches
        /\ rsvgRuns = atFile.rsvgRuns
        /\ exitcode # 1

\* C2: the second processing has ended, after a first one that created,
\* deleted, fetched and rasterized
C2_Witness ==
    /\ ~dryrun
    /\ fileIdx = 2
    /\ catalog_fpaths[2] = catalog_fpaths[1]
    /\ UpdateDone
    /\ \E k \in LinesOf(1) : log[k].op = "rmtree"
    /\ \E k \in LinesOf(1) : log[k].op = "remove"
    /\ \E k \in LinesOf(1) : log[k].op = "fetch"
    /\ \E k \in LinesOf(1) : log[k].op = "write"
    /\ rsvgRuns > 0

\* C3: in a dry run the file system (catalogs, manifests, raster files, svg
\* cache) stays as it was when the script started, nothing is fetched and no
\* rasterizer process is run.
C3_DryRunPurity ==
    dryrun => (fs = fs0 /\ fetches = 0 /\ rsvgRuns = 0)

\* C3: a dry run that ended after planning every kind of action
C3_Witness ==
    /\ dryrun
    /\ pc = "exit" /\ exitcode = 0
    /\ \A o \in {"mkdir", "write", "rmtree", "remove", "fetch", "raster"} :
          \E k \in DOMAIN log : log[k].op = o

\* the groups of a configuration, and the tokens of a group
GroupsOf(cfg) == {cfg[i] : i \in {j \in DOMAIN cfg : cfg[j].t = "list"}}
TokensOf(g) == {g.items[i] : i \in DOMAIN g.items}
IntsOf(g) == {w.i : w \in {x \in TokensOf(g) : x.t = "int"}}
StylesOf(g) ==
    {w.s : w \in {x \in TokensOf(g) :
        x.t = "str" /\ x.s \in {"bold", "duotone", "fill", "light", "regular", "thin"}}}
NamesOf(g) ==
    {w.s : w \in {x \in TokensOf(g) :
        x.t = "str" /\ x.s \notin {"bold", "duotone", "fill", "light", "regular", "thin"}}}
OnlyIntStr(cfg) == \A g \in GroupsOf(cfg) : \A w \in TokensOf(g) : w.t \in {"int", "str"}

\* C4: for a configuration whose groups hold only integer and string tokens,
\* the set parse_icon_groups returns is the union over the groups of
\* names x sizes x styles, with {44} for an empty size set and {"regular"}
\* for an empty style set; no such configuration is rejected.
C4_UnionOfProducts ==
    OnlyIntStr(config) =>
        /\ pc = "exit" => ~parse_options(config).ok
        /\ pc = "catalog" =>
             icons_set =
               UNION { { <<n, z, y>> :
                            n \in NamesOf(g),
                            z \in (IF IntsOf(g) = {} THEN {44} ELSE IntsOf(g)),
                            y \in (IF StylesOf(g) = {} THEN {"regular"} ELSE StylesOf(g)) } :
                       g \in GroupsOf(config) }

\* C4: an icon name that two groups list with different sizes and styles
\* carries the combinations of both
C4_Witness ==
    /\ pc = "catalog"
    /\ \E g, h \in GroupsOf(config) :
          /\ "p" \in NamesOf(g) \cap NamesOf(h)
          /\ StylesOf(g) = {"bold"} /\ StylesOf(h) = {}
          /\ IntsOf(g) = {} /\ IntsOf(h) = {20}
    /\ {<<"p", 44, "bold">>, <<"p", 20, "regular">>} \subseteq icons_set
    /\ <<"p", 20, "bold">> \notin icons_set

\* C5: the defaults are applied per group and per dimension: every name of a
\* group without integer token gets size 44 with each style of the group,
\* every name of a group without style token gets style "regular" with each
\* size of the group, and a triple with size 44 or style "regular" is in the
\* result only for a group that lists its name and either gives that value
\* or gives no value for that dimension.
C5_Defaults ==
    pc = "catalog" =>
        /\ \A g \in GroupsOf(config) : \A n \in NamesOf(g) :
              /\ IntsOf(g) = {} =>
                    \A y \in (IF StylesOf(g) = {} THEN {"regular"} ELSE StylesOf(g)) :
                        <<n, 44, y>> \in icons_set
              /\ StylesOf(g) = {} =>
                    \A z \in (IF IntsOf(g) = {} THEN {44} ELSE IntsOf(g)) :
                        <<n, z, "regular">> \in icons_set
        /\ \A t \in icons_set :
              \E g \in GroupsOf(config) :
                 /\ t[1] \in NamesOf(g)
                 /\ t[2] \in IntsOf(g) \/ (IntsOf(g) = {} /\ t[2] = 44)
                 /\ t[3] \in StylesOf(g) \/ (StylesOf(g) = {} /\ t[3] = "regular")
        /\ (Cardinality(GroupsOf(config)) = 1 /\
            \A g \in GroupsOf(config) : IntsOf(g) = {} /\ StylesOf(g) = {}) =>
              icons_set = UNION {{<<n, 44, "regular">> : n \in NamesOf(g)} :
                                   g \in GroupsOf(config)}

\* C5: a group with names alone beside a group that gives a style: the first
\* expands to (name, 44, "regular") only, the second gets the default size
\* and not the default style
C5_Witness ==
    /\ pc = "catalog"
    /\ Len(config) = 2
    /\ \E g, h \in GroupsOf(config) :
          /\ NamesOf(g) = {"u"} /\ IntsOf(g) = {} /\ StylesOf(g) = {}
          /\ NamesOf(h) = {"p"} /\ IntsOf(h) = {} /\ StylesOf(h) = {"bold"}
    /\ icons_set = {<<"u", 44, "regular">>, <<"p", 44, "bold">>}

\* a group of the configuration holds a token that is no int and no str
HasJunk(cfg) == ~OnlyIntStr(cfg)

\* the script has loaded the configuration of the current file
Loaded == pc # "load"

\* C6 as stated: when the run has aborted on a token that is neither an
\* integer nor a string, the exit code is 1 and the file system is as it was
\* when the script started.
C6_Original ==
    (pc = "exit" /\ Loaded /\ HasJunk(config)) => (exitcode = 1 /\ fs = fs0)

\* C6: when a group of the configuration of file i holds a token that is
\* neither an integer nor a string, the processing of file i never reaches
\* the catalog: it changes nothing in the file system, fetches nothing, runs
\* no rasterizer, and the run exits with code 1; for the first file the file
\* system is as it was when the script started.
C6_NoMutationForThatFile ==
    (Loaded /\ HasJunk(config)) =>
        /\ pc \in {"options", "groups", "exit"}
        /\ pc = "exit" => exitcode = 1
        /\ fs = atFile.fs
        /\ fetches = atFile.fetches
        /\ rsvgRuns = atFile.rsvgRuns
        /\ \A k \in LinesOf(fileIdx) : log[k].op = "error"
        /\ fileIdx = 1 => fs = fs0

\* C6: the second file of an invocation is rejected for a token, after the
\* first file changed the file system
C6_Witness ==
    /\ pc = "exit" /\ exitcode = 1
    /\ Loaded /\ HasJunk(config)
    /\ parse_options(config).ok
    /\ fileIdx = 2
    /\ fs # fs0

\* C7: the files are processed in argument order; once a fatal error is
\* detected the script has exited with code 1 and nothing is logged or done
\* after it, for this file or a later one; exit code 0 is reached only after
\* the last file, with no error logged and every file loaded and parsed.
C7_FailFast ==
    /\ \A j, k \in DOMAIN log : j < k => log[j].file <= log[k].file
    /\ \A k \in DOMAIN log : log[k].file <= fileIdx
    /\ \A k \in DOMAIN log : log[k].op = "error" =>
          /\ k = Len(log)
          /\ pc = "exit"
          /\ exitcode = 1
    /\ exitcode = 1 => (pc = "exit" /\ log # <<>> /\ log[Len(log)].op = "error")
    /\ exitcode = 0 =>
          /\ pc = "exit"
          /\ fileIdx = Len(catalog_fpaths)
          /\ \A k \in DOMAIN log : log[k].op # "error"
          /\ \A i \in DOMAIN catalog_fpaths :
                \A f \in FileContents(catalog_fpaths[i]) :
                   /\ f.readable /\ f.wellformed /\ f.toplist
                   /\ parse_options(f.entries).ok
                   /\ parse_icon_groups(f.entries).ok
    /\ pc = "exit" => exitcode \in {0, 1}

\* C7: the rasterizer failed for the first of two files, after other actions
C7_Witness ==
    /\ pc = "exit" /\ exitcode = 1
    /\ Len(catalog_fpaths) = 2
    /\ fileIdx = 1
    /\ Len(log) > 2
    /\ log[Len(log)].path = "rsvg-convert"

\* C8 as stated, for the calls of a run that is not a dry run: a call of
\* get_svg_fpath returns the checkout file when a checkout is configured and
\* holds the file; otherwise the cache file when the cache holds it;
\* otherwise it fetches the file into the cache and returns the cache path.
C8_ResolutionOrder ==
    (lastSvg.valid /\ lastSvg.file = fileIdx /\ ~dryrun) =>
        LET fname == IF lastSvg.style = "regular" THEN lastSvg.name \o ".svg"
                     ELSE lastSvg.name \o "-" \o lastSvg.style \o ".svg"
            configured == "phosphor_core_path" \in DOMAIN options
            checkout == options["phosphor_core_path"] \o "/assets/" \o lastSvg.style
                           \o "/" \o fname
            cachedir == Home \o "/.phosphor-uikit/svg-cache/assets/" \o lastSvg.style
            cache == cachedir \o "/" \o fname
        IN  IF configured /\ checkout \in fs.ext
            THEN lastSvg.ret = checkout /\ ~lastSvg.fetch
            ELSE IF lastSvg.cached
            THEN lastSvg.ret = cache /\ ~lastSvg.fetch
            ELSE /\ lastSvg.ret = cache
                 /\ lastSvg.fetch
                 /\ exitcode = -1 =>
                       (cachedir \in DOMAIN fs.cache /\ fname \in DOMAIN fs.cache[cachedir])

\* the factor the name of a raster file stands for
FactorOf(fname) ==
    IF EndsWith(fname, "@2x.png") THEN 2
    ELSE IF EndsWith(fname, "@3x.png") THEN 3
    ELSE 1

\* C9 as stated: the rasterizer is called with size * 1 for the base file,
\* size * 2 for the '@2x' file and size * 3 for the '@3x' file, and the scale
\* tag the manifest gives the file agrees with that factor.
C9_ResolutionAndScale ==
    lastRsvg.valid =>
        /\ lastRsvg.resolution = lastRsvg.size * FactorOf(lastRsvg.fname)
        /\ Scale(lastRsvg.fname) = IntToStr(lastRsvg.resolution \div lastRsvg.size) \o "x"

\* the manifest of directory d of catalog c in file system F, "" when absent
ManifestOf(F, c, d) ==
    IF /\ c \in DOMAIN F.cats
       /\ d \in DOMAIN F.cats[c].dirs
       /\ "Contents.json" \in DOMAIN F.cats[c].dirs[d]
    THEN F.cats[c].dirs[d]["Contents.json"]
    ELSE ""

\* the root manifest of catalog c in file system F, "" when absent
RootManifestOf(F, c) ==
    IF c \in DOMAIN F.cats /\ "Contents.json" \in DOMAIN F.cats[c].files
    THEN F.cats[c].files["Contents.json"]
    ELSE ""

\* the directories of catalog c in file system F
DirsOf(F, c) == IF c \in DOMAIN F.cats THEN DOMAIN F.cats[c].dirs ELSE {}

\* C10 as stated: a root manifest or a variant-group manifest that exists when
\* the processing of a config file starts has the same content afterwards.
C10_Original ==
    \A c \in DOMAIN atFile.fs.cats :
        /\ RootManifestOf(atFile.fs, c) # "" =>
              RootManifestOf(fs, c) = RootManifestOf(atFile.fs, c)
        /\ \A d \in DOMAIN atFile.fs.cats[c].dirs :
              ManifestOf(atFile.fs, c, d) # "" =>
                 ManifestOf(fs, c, d) = ManifestOf(atFile.fs, c, d)

\* the "Contents.json" lines logged for the current file
WriteLines == {k \in LinesOf(fileIdx) : log[k].op = "write"}

\* C10: a root manifest that exists when the processing of a config file
\* starts, and the manifest of a variant group that exists then and is in the
\* desired set, keep their content, in a dry run and in a real one, whatever
\* raster files are deleted or created in the group; the manifest of a
\* variant group outside the desired set goes with its directory and in no
\* other way; a manifest is written only where none was, at most once while
\* the file is processed, and never in a dry run.
C10_CreateIfAbsent ==
    /\ \A c \in DOMAIN atFile.fs.cats :
          /\ RootManifestOf(atFile.fs, c) # "" =>
                RootManifestOf(fs, c) = RootManifestOf(atFile.fs, c)
          /\ \A d \in DirsOf(atFile.fs, c) :
                ManifestOf(atFile.fs, c, d) # "" =>
                   IF d \in DirsOf(fs, c)
                   THEN ManifestOf(fs, c, d) = ManifestOf(atFile.fs, c, d)
                   ELSE /\ ~dryrun
                        /\ c = Cat
                        /\ pc \in {"imagesets", "triples", "pngs", "exit"}
                        /\ \A t \in icons_set :
                              d # t[1] \o "." \o IntToStr(t[2]) \o "." \o t[3] \o ".imageset"
    /\ \A j, k \in WriteLines : log[j].path = log[k].path => j = k
    /\ \A k \in WriteLines :
          \/ /\ log[k].path = Cat \o "/Contents.json"
             /\ RootManifestOf(atFile.fs, Cat) = ""
          \/ \E t \in icons_set :
                LET d == t[1] \o "." \o IntToStr(t[2]) \o "." \o t[3] \o ".imageset"
                IN  /\ log[k].path = Cat \o "/" \o d \o "/Contents.json"
                    /\ ManifestOf(atFile.fs, Cat, d) = ""
    /\ \A c \in DOMAIN fs.cats :
          /\ RootManifestOf(fs, c) # RootManifestOf(atFile.fs, c) =>
                /\ ~dryrun
                /\ c = Cat
                /\ \E k \in WriteLines : log[k].path = c \o "/Contents.json"
          /\ \A d \in DirsOf(fs, c) :
                ManifestOf(fs, c, d) # ManifestOf(atFile.fs, c, d) =>
                   /\ ~dryrun
                   /\ c = Cat
                   /\ \E k \in WriteLines : log[k].path = c \o "/" \o d \o "/Contents.json"

\* C10: a real run kept the manifest of a group whose raster files it deleted
\* and created, wrote the manifest of a new group and deleted a stale group
\* with its manifest
C10_Witness ==
    /\ UpdateDone /\ ~dryrun
    /\ \E d \in DOMAIN fs.cats[Cat].dirs :
          /\ ManifestOf(fs, Cat, d) = "{custom}"
          /\ \E k \in LinesOf(fileIdx) :
                log[k].op = "remove" /\ log[k].path = Cat \o "/" \o d \o "/old.png"
          /\ \E k \in LinesOf(fileIdx) :
                log[k].op = "raster" /\ log[k].path = Cat \o "/" \o d \o "/"
                    \o SubSeq(d, 1, Len(d) - Len(".imageset")) \o ".png"
    /\ WriteLines # {}
    /\ \E d \in DOMAIN atFile.fs.cats[Cat].dirs :
          ManifestOf(atFile.fs, Cat, d) # "" /\ d \notin DOMAIN fs.cats[Cat].dirs

RecordsOf(cfg) == {i \in DOMAIN cfg : cfg[i].t = "dict"}
KeysOf(e) == {e.kv[j][1] : j \in DOMAIN e.kv}

\* the positions of the records that set option k, and the value the last
\* of them gives it (dflt when no record sets it)
Setting(cfg, k) == {i \in RecordsOf(cfg) : k \in KeysOf(cfg[i])}
LastValue(cfg, k, dflt) ==
    IF Setting(cfg, k) = {} THEN dflt
    ELSE LET i == CHOOSE x \in Setting(cfg, k) : \A y \in Setting(cfg, k) : y <= x
             j == CHOOSE x \in DOMAIN cfg[i].kv : cfg[i].kv[x][1] = k
         IN  cfg[i].kv[j][2]

\* the two conditions under which the claim lets parse_options abort
Rejected(cfg) ==
    \/ \E i \in RecordsOf(cfg) : KeysOf(cfg[i]) \ {"renderer", "phosphor_core_path"} # {}
    \/ LastValue(cfg, "renderer", "rsvg") \notin {"rsvg", "inkscape"}

\* C12: parse_options aborts with exit code 1 exactly when a record carries a
\* key that is none of the two option names or the renderer the last record
\* gives is none of the two renderers, and then nothing is logged but the
\* error and the file system is untouched; otherwise the options are
\* {renderer: "rsvg"} overridden by the records in order, the last record
\* that sets a key giving its value, wherever the records stand among the
\* groups.
C12_LastRecordWins ==
    pc # "options" =>
        /\ Rejected(config) <=>
              /\ pc = "exit"
              /\ exitcode = 1
              /\ log = <<[file |-> 1, op |-> "error", path |-> "option"]>>
        /\ Rejected(config) =>
              /\ fs = fs0
              /\ fetches = 0
              /\ rsvgRuns = 0
              /\ icons_set = {}
        /\ ~Rejected(config) =>
              /\ DOMAIN options =
                   {"renderer"} \cup
                   {k \in {"renderer", "phosphor_core_path"} : Setting(config, k) # {}}
              /\ options["renderer"] = LastValue(config, "renderer", "rsvg")
              /\ "phosphor_core_path" \in DOMAIN options =>
                    options["phosphor_core_path"]
                        = LastValue(config, "phosphor_core_path", "")

\* C12: a record with a renderer that is none, then the group, then a record
\* that sets both options: the configuration is accepted with the values of
\* the last record, and the catalog is updated
C12_Witness ==
    /\ Len(config) = 3
    /\ config[1].t = "dict" /\ config[1].kv = <<<<"renderer", "cairo">>>>
    /\ config[2].t = "list"
    /\ config[3].t = "dict" /\ KeysOf(config[3]) = {"renderer", "phosphor_core_path"}
    /\ options = [renderer |-> "inkscape", phosphor_core_path |-> "~/k"]
    /\ UpdateDone
    /\ log # <<>>

\* C13 as stated: every call of get_svg_fpath made while a config file is
\* processed returns the path, and logs the warning, cache directory and
\* fetch lines, that the same call returns and logs in a process started for
\* that file alone on the file system the files before it left.
C13_Isolation ==
    (lastSvg.valid /\ lastSvg.file = fileIdx) =>
        /\ lastSvg.ret = lastSvg.fresh.ret
        /\ lastSvg.lines = lastSvg.fresh.lines

\* The lines a run that is not a dry run logs, as [op, path], when every
\* fetch and every rsvg-convert succeeds: update_asset_catalog computed as a
\* function of the file system F it starts in.

\* lines 317-321 for the sorted names del of directory d
RECURSIVE RealRemoves(_, _, _, _)
RealRemoves(del, c, d, F) ==
    IF del = <<>> THEN [fs |-> F, lines |-> <<>>]
    ELSE LET r == RealRemoves(Tail(del), c, d, RmFile(F, c, d, Head(del)))
         IN  [fs |-> r.fs,
              lines |-> <<[op |-> "remove", path |-> PathJoin(PathJoin(c, d), Head(del))]>>
                          \o r.lines]

\* lines 322-324 for the sorted names new of the directory of triple t
RECURSIVE RealRasters(_, _, _, _, _, _)
RealRasters(new, t, c, opts, F, warned) ==
    IF new = <<>> THEN [fs |-> F, warned |-> warned, lines |-> <<>>]
    ELSE LET d == imageset_dname(t)
             png_fpath == PathJoin(PathJoin(c, d), Head(new))
             g == get_svg_fpath(t[1], t[3], opts, F, warned, FALSE)
             F2 == WriteFile(g.fs, c, d, Head(new),
                     "png:" \o IntToStr(Resolution(t[2], png_fpath)) \o ":" \o g.ret)
             r == RealRasters(Tail(new), t, c, opts, F2, g.warned)
         IN  [fs |-> r.fs, warned |-> r.warned,
              lines |-> g.lines \o <<[op |-> "raster", path |-> png_fpath]>> \o r.lines]

\* the loop at lines 300-325 over the sorted triples ts
RECURSIVE RealTriples(_, _, _, _, _)
RealTriples(ts, c, opts, F, warned) ==
    IF ts = <<>> THEN <<>>
    ELSE LET t == Head(ts)
             d == imageset_dname(t)
             existing == ExistingPngs(F, c, d)
             expected == ExpectedPngs(t)
             a == RealRemoves(SortedStrs(existing \ expected), c, d, F)
             b == RealRasters(SortedStrs(expected \ existing), t, c, opts, a.fs, warned)
             absent == ~FileExists(b.fs, c, d, "Contents.json")
             F2 == IF absent
                   THEN WriteFile(b.fs, c, d, "Contents.json", ImagesetJson(PngNames(t)))
                   ELSE b.fs
         IN  a.lines \o b.lines
               \o (IF absent
                   THEN <<[op |-> "write",
                           path |-> PathJoin(PathJoin(c, d), "Contents.json")]>>
                   ELSE <<>>)
               \o RealTriples(Tail(ts), c, opts, F2, b.warned)

\* lines 289-293 and 294-298
RECURSIVE RealRmTrees(_, _, _)
RealRmTrees(del, c, F) ==
    IF del = <<>> THEN [fs |-> F, lines |-> <<>>]
    ELSE LET r == RealRmTrees(Tail(del), c, RmTree(F, c, Head(del)))
         IN  [fs |-> r.fs,
              lines |-> <<[op |-> "rmtree", path |-> PathJoin(c, Head(del))]>> \o r.lines]

RECURSIVE RealMkDirs(_, _, _)
RealMkDirs(new, c, F) ==
    IF new = <<>> THEN [fs |-> F, lines |-> <<>>]
    ELSE LET r == RealMkDirs(Tail(new), c, MkDir(F, c, Head(new)))
         IN  [fs |-> r.fs,
              lines |-> <<[op |-> "mkdir", path |-> PathJoin(c, Head(new))]>> \o r.lines]

\* update_asset_catalog(c, icons, opts) (lines 266-325)
RealUpdate(F, c, icons, opts, warned) ==
    LET noCat == ~CatExists(F, c)
        F1 == IF noCat THEN MkCat(F, c) ELSE F
        noJson == ~EntryExists(F1, c, "Contents.json")
        F2 == IF noJson THEN WriteCatFile(F1, c, "Contents.json", XcassetJson) ELSE F1
        existing == ExistingImagesets(F2, c)
        expected == ExpectedImagesets(icons)
        a == RealRmTrees(SortedStrs(existing \ expected), c, F2)
        b == RealMkDirs(SortedStrs(expected \ existing), c, a.fs)
    IN  (IF noCat THEN <<[op |-> "mkdir", path |-> c]>> ELSE <<>>)
          \o (IF noJson THEN <<[op |-> "write", path |-> PathJoin(c, "Contents.json")]>>
              ELSE <<>>)
          \o a.lines \o b.lines
          \o RealTriples(SortedTriples(icons), c, opts, b.fs, warned)

\* the lines logged so far, as [op, path]
Logged == [k \in DOMAIN log |-> [op |-> log[k].op, path |-> log[k].path]]

\* C14 as stated: when a dry run has completed update_asset_catalog for the
\* first config file, the sequence of lines it logged is the sequence a run
\* that is not a dry run logs from the same initial file system.
C14_FaithfulPreview ==
    (dryrun /\ fileIdx = 1 /\ UpdateDone) =>
        Logged = RealUpdate(fs0, Cat, icons_set, options, FALSE)

\* C15 as stated: every triple of the set parse_icon_groups returns for an
\* accepted configuration, the set update_asset_catalog is called with, has
\* a string as name, an integer of at least 1 as size and one of the six
\* styles as style.
C15_PositiveSizes ==
    pc = "catalog" =>
        \A t \in icons_set :
            /\ t[1] \in STRING
            /\ t[2] \in Int /\ t[2] >= 1
            /\ t[3] \in {"bold", "duotone", "fill", "light", "regular", "thin"}

\* s starts with pre
StartsWith(s, pre) == Len(s) >= Len(pre) /\ SubSeq(s, 1, Len(pre)) = pre

\* the lines of the current file that delete a variant directory, create
\* one, delete a raster file, create one
RmTreeLines == {k \in LinesOf(fileIdx) : log[k].op = "rmtree"}
MkDirLines ==
    {k \in LinesOf(fileIdx) : log[k].op = "mkdir" /\ EndsWith(log[k].path, ".imageset")}
RemoveLines == {k \in LinesOf(fileIdx) : log[k].op = "remove"}
RasterLines == {k \in LinesOf(fileIdx) : log[k].op = "raster"}

\* the desired triple in whose directory line k acts
GroupOfLine(k) ==
    CHOOSE t \in icons_set :
        StartsWith(log[k].path,
            Cat \o "/" \o t[1] \o "." \o IntToStr(t[2]) \o "." \o t[3] \o ".imageset/")

\* the lines of S are in strictly ascending order of their paths
Ascending(S) == \A j, k \in S : j < k => StrLess(log[j].path, log[k].path)

\* C16: the lines logged for a config file are ordered by the sets alone:
\* the variant-directory deletions come first, in ascending name order, then
\* the variant-directory creations, in ascending name order, then the raster
\* file actions, group after group in ascending order of (name, size, style),
\* and in each group the deletions in ascending name order before the
\* creations in ascending name order.
C16_SortedOrder ==
    /\ \A j \in RmTreeLines : \A k \in MkDirLines \cup RemoveLines \cup RasterLines : j < k
    /\ \A j \in MkDirLines : \A k \in RemoveLines \cup RasterLines : j < k
    /\ Ascending(RmTreeLines)
    /\ Ascending(MkDirLines)
    /\ \A j, k \in RemoveLines \cup RasterLines :
          \* each raster file line and the next one
          (j < k /\ \A m \in RemoveLines \cup RasterLines : m <= j \/ k <= m) =>
             \/ TripleLess(GroupOfLine(j), GroupOfLine(k))
             \/ /\ GroupOfLine(j) = GroupOfLine(k)
                /\ log[j].op = "remove" \/ log[k].op = "raster"
                /\ log[j].op = log[k].op => StrLess(log[j].path, log[k].path)

\* C16: a run deleted a variant directory, created one, and visited two
\* groups, deleting two raster files and creating two in the first
C16_Witness ==
    /\ UpdateDone
    /\ RmTreeLines # {}
    /\ MkDirLines # {}
    /\ \E t, u \in icons_set :
          /\ t # u
          /\ Cardinality({k \in RemoveLines : GroupOfLine(k) = t}) = 2
          /\ Cardinality({k \in RasterLines : GroupOfLine(k) = t}) = 2
          /\ Cardinality({k \in RasterLines : GroupOfLine(k) = u}) = 3

\* the three raster files expected for triple t, as (directory, file) pairs
ExpectedFilesOf(t) ==
    LET n == t[1] \o "." \o IntToStr(t[2]) \o "." \o t[3]
    IN  {<<n \o ".imageset", n \o x>> : x \in {".png", "@2x.png", "@3x.png"}}

\* file e[2] of directory e[1] of the current catalog exists in file system F
PresentIn(F, e) ==
    /\ Cat \in DOMAIN F.cats
    /\ e[1] \in DOMAIN F.cats[Cat].dirs
    /\ e[2] \in DOMAIN F.cats[Cat].dirs[e[1]]

\* the lines of the current file that create, and that delete, that file
RasterLinesOf(e) == {k \in RasterLines : log[k].path = Cat \o "/" \o e[1] \o "/" \o e[2]}
RemoveLinesOf(e) == {k \in RemoveLines : log[k].path = Cat \o "/" \o e[1] \o "/" \o e[2]}

\* C17: while a config file is processed, an expected raster file that is in
\* its variant directory when the processing starts is never handed to the
\* rasterizer, never deleted, and keeps its content; an expected raster file
\* that is absent is handed to the rasterizer at most once, and exactly once
\* when update_asset_catalog has completed; in a run that is not a dry run
\* one rsvg-convert process is run per such call, and none in a dry run.
C17_NoRedundantRasterization ==
    pc \notin {"load", "options", "groups"} =>
        /\ \A t \in icons_set : \A e \in ExpectedFilesOf(t) :
              IF PresentIn(atFile.fs, e)
              THEN /\ RasterLinesOf(e) = {}
                   /\ RemoveLinesOf(e) = {}
                   /\ PresentIn(fs, e)
                   /\ fs.cats[Cat].dirs[e[1]][e[2]] = atFile.fs.cats[Cat].dirs[e[1]][e[2]]
              ELSE /\ Cardinality(RasterLinesOf(e)) <= 1
                   /\ UpdateDone => Cardinality(RasterLinesOf(e)) = 1
        /\ \A k \in RasterLines :
              \E t \in icons_set : \E e \in ExpectedFilesOf(t) : k \in RasterLinesOf(e)
        /\ rsvgRuns - atFile.rsvgRuns = IF dryrun THEN 0 ELSE Cardinality(RasterLines)

\* C17: a run that is not a dry run completed for a group that held one of
\* its three raster files: that file is as it was, the two others were
\* rasterized, by one rsvg-convert process each
C17_Witness ==
    /\ UpdateDone /\ ~dryrun
    /\ \E t \in icons_set :
          /\ Cardinality({e \in ExpectedFilesOf(t) : PresentIn(atFile.fs, e)}) = 1
          /\ \A e \in ExpectedFilesOf(t) :
                PresentIn(atFile.fs, e) => fs.cats[Cat].dirs[e[1]][e[2]] = "png:old"
          /\ Cardinality({e \in ExpectedFilesOf(t) : RasterLinesOf(e) # {}}) = 2
    /\ rsvgRuns - atFile.rsvgRuns >= 2

\* C18 as stated: in a run that is not a dry run every line that deletes or
\* creates a variant directory stands before every line that deletes or
\* creates a raster file, and where the rasterizer is invoked or a variant
\* manifest is written the catalog directory and the variant directory exist.
C18_Original ==
    ~dryrun =>
        /\ \A j, k \in DOMAIN log :
              (/\ \/ log[j].op = "rmtree"
                  \/ log[j].op = "mkdir" /\ EndsWith(log[j].path, ".imageset")
               /\ log[k].op \in {"remove", "raster"}) => j < k
        /\ pc = "pngs" =>
              /\ Cat \in DOMAIN fs.cats
              /\ \E t \in icons_set :
                    /\ t = Head(todoTriples)
                    /\ t[1] \o "." \o IntToStr(t[2]) \o "." \o t[3] \o ".imageset"
                          \in DOMAIN fs.cats[Cat].dirs

\* C18: in a run that is not a dry run, among the lines logged for one
\* config file every deletion and creation of a variant directory stands
\* before every deletion and creation of a raster file, and the creation of
\* the catalog directory before all of them; where the rasterizer is invoked
\* or a variant manifest is written, the catalog directory and the variant
\* directory of the group exist.  The directory actions of a later config
\* file follow the raster file actions of an earlier one.
C18_TwoLevels ==
    ~dryrun =>
        /\ \A j \in RmTreeLines \cup MkDirLines :
              \A k \in RemoveLines \cup RasterLines : j < k
        /\ \A j \in LinesOf(fileIdx) :
              (log[j].op = "mkdir" /\ log[j].path = Cat) =>
                 \A k \in LinesOf(fileIdx) : j <= k
        /\ pc = "pngs" =>
              /\ Cat \in DOMAIN fs.cats
              /\ \E t \in icons_set :
                    /\ t = Head(todoTriples)
                    /\ t[1] \o "." \o IntToStr(t[2]) \o "." \o t[3] \o ".imageset"
                          \in DOMAIN fs.cats[Cat].dirs
        /\ \A k \in RasterLines \cup {w \in WriteLines : log[w].path # Cat \o "/Contents.json"} :
              /\ Cat \in DOMAIN fs.cats
              /\ \E d \in DOMAIN fs.cats[Cat].dirs :
                    StartsWith(log[k].path, Cat \o "/" \o d \o "/")

\* C18: the second config file of a run that is not a dry run had a variant
\* directory deleted and one created, then raster files created in the new
\* directory, after raster files were created for the first config file
C18_Witness ==
    /\ ~dryrun /\ fileIdx = 2 /\ UpdateDone
    /\ \E k \in LinesOf(1) : log[k].op = "raster"
    /\ RmTreeLines # {}
    /\ \E j \in MkDirLines : \E k \in RasterLines :
          StartsWith(log[k].path, log[j].path \o "/")

\* triples whose names, sizes and styles are parts of one another's
\* directory names
NameTriples ==
    {"u", "u.2", "2", "u.2.bold", "u.2.2"} \X {2, 22, 44} \X {"bold", "regular"}

\* C19: the directory name of a desired triple is the directory name of no
\* other triple, also for icon names with dots and digits; in a dry run on a
\* catalog directory that is absent or empty no deletion of a variant
\* directory is planned and the creations planned, those logged and those still
\* to come, are as many as the desired triples.
C19_InjectiveNames ==
    pc \notin {"options", "groups", "exit"} =>
        /\ \A t \in icons_set : \A u \in icons_set \cup NameTriples :
              t # u => imageset_dname(t) # imageset_dname(u)
        /\ RmTreeLines = {}
        /\ pc = "imagesets" =>
              /\ todoDel = <<>>
              /\ Cardinality(MkDirLines) + Len(todoNew) = Cardinality(icons_set)
        /\ pc \in {"triples", "pngs"} => Cardinality(MkDirLines) = Cardinality(icons_set)

\* C19: a dry run planned the creation of one directory for each of two
\* triples, of name "u.2" and of name "u" with size 2
C19_Witness ==
    /\ dryrun /\ UpdateDone
    /\ Cardinality(icons_set) = 2
    /\ \E t, u \in icons_set : t[1] = "u.2" /\ u[1] = "u" /\ u[2] = 2
    /\ Cardinality(MkDirLines) = 2
    /\ fs = fs0

\* d is the directory of a desired triple
Desired(d) ==
    \E t \in icons_set : d = t[1] \o "." \o IntToStr(t[2]) \o "." \o t[3] \o ".imageset"

\* C20: while a config file is processed, every file and directory of a
\* catalog directory whose name does not end in '.imageset' stays with its
\* content, and the only such entry that can appear is the root manifest;
\* in a variant directory of the desired set every file whose name does not
\* end in '.png' stays with its content, and the only such file that can
\* appear is the variant manifest; a catalog other than the one of the
\* config file is not touched.
C20_SuffixFrame ==
    \A c \in DOMAIN atFile.fs.cats :
        /\ c \in DOMAIN fs.cats
        /\ c # Cat => fs.cats[c] = atFile.fs.cats[c]
        /\ \A f \in DOMAIN atFile.fs.cats[c].files :
              ~EndsWith(f, ".imageset") =>
                 /\ f \in DOMAIN fs.cats[c].files
                 /\ fs.cats[c].files[f] = atFile.fs.cats[c].files[f]
        /\ \A f \in DOMAIN fs.cats[c].files \ DOMAIN atFile.fs.cats[c].files :
              f = "Contents.json"
        /\ \A d \in DOMAIN atFile.fs.cats[c].dirs :
              ~EndsWith(d, ".imageset") =>
                 /\ d \in DOMAIN fs.cats[c].dirs
                 /\ fs.cats[c].dirs[d] = atFile.fs.cats[c].dirs[d]
        /\ \A d \in DOMAIN fs.cats[c].dirs \ DOMAIN atFile.fs.cats[c].dirs :
              EndsWith(d, ".imageset")
        /\ \A d \in DOMAIN atFile.fs.cats[c].dirs :
              (c = Cat /\ Desired(d)) =>
                 /\ d \in DOMAIN fs.cats[c].dirs
                 /\ \A f \in DOMAIN atFile.fs.cats[c].dirs[d] :
                       ~EndsWith(f, ".png") =>
                          /\ f \in DOMAIN fs.cats[c].dirs[d]
                          /\ fs.cats[c].dirs[d][f] = atFile.fs.cats[c].dirs[d][f]
                 /\ \A f \in DOMAIN fs.cats[c].dirs[d] \ DOMAIN atFile.fs.cats[c].dirs[d] :
                       EndsWith(f, ".png") \/ f = "Contents.json"

\* C20: a run that is not a dry run deleted a variant directory and, in a
\* variant directory it kept, raster files, beside a root manifest, a file
\* and a directory without the '.imageset' suffix and, in the kept directory,
\* a manifest and a file without the '.png' suffix, which are all as before
C20_Witness ==
    /\ ~dryrun /\ UpdateDone
    /\ RmTreeLines # {}
    /\ fs.cats[Cat].files = Put(Put(NoFiles, "Contents.json", "{custom}"), "README", "readme")
    /\ "docs" \in DOMAIN fs.cats[Cat].dirs
    /\ \E d \in DOMAIN fs.cats[Cat].dirs :
          /\ Desired(d)
          /\ \E k \in RemoveLines : StartsWith(log[k].path, Cat \o "/" \o d \o "/")
          /\ {f \in DOMAIN fs.cats[Cat].dirs[d] : ~EndsWith(f, ".png")}
                = {"Contents.json", "notes.txt"}
          /\ fs.cats[Cat].dirs[d]["Contents.json"] = "{custom}"

====
